---- MODULE Spec2Model ----
(***************************************************************************)
(* The two example applications of bevy_dioxus, examples/main_menu.rs and  *)
(* examples/demo.rs, as one state machine.  A frame of the ECS application *)
(* is a sequence of steps: the state transition (apply_state_transition    *)
(* with the OnExit / OnEnter schedules and their deferred commands), then  *)
(* the Update systems (tick_game_timer and the UI tick) in either order.   *)
(* The UI tick runs the deferred closures, dispatches the pointer events   *)
(* of the frame to the handlers of the UI that was rendered last, and      *)
(* renders the component tree again.                                       *)
(*                                                                         *)
(* The world of the model is the part of the ECS world the examples own:   *)
(* State<MenuState>, NextState<MenuState>, GameTimer, the entities that    *)
(* the examples spawn, and the AppExit events.  The entities the UI tree   *)
(* is mounted as are represented by the variable rendered.                 *)
(***************************************************************************)
EXTENDS Integers, Sequences, FiniteSets, TLC

VARIABLES
    app,             \* which example runs: "main_menu" or "demo"
    pc,              \* position in the frame
    state,           \* State<MenuState>
    next_state,      \* NextState<MenuState>: <<>> (None) or <<s>> (Some(s))
    game_timer,      \* the GameTimer resource: <<>> (absent) or <<elapsed>>
    entities,        \* live entities: id -> [node, on_game, parent]
    app_exit,        \* number of AppExit events sent
    commands,        \* the command buffer of the schedule being run
    transition,      \* the transition being applied: <<>> or <<[from, to]>>
    ran,             \* the Update systems that have run in this frame
    queue,           \* closures passed to system_scheduler.schedule, not yet run
    running,         \* scheduled closures that are executing
    clicks,          \* pointer events read in this frame's UI tick
    event,           \* the pointer event being dispatched: <<>> or <<[target, button]>>
    rendered,        \* what the last render of the component tree showed
    selected_entity  \* demo: the Editor's use_state_sendable: {} or {id}

world == <<state, next_state, game_timer, entities, app_exit>>
vars == <<app, pc, state, next_state, game_timer, entities, app_exit, commands,
          transition, ran, queue, running, clicks, event, rendered, selected_entity>>

\* ---------------------------------------------------------------- bounds
MaxClicksPerFrame == 2     \* pointer events dispatched in one UI tick
MaxDelta == 2              \* largest frame time, in seconds
MaxSpawned == 2            \* demo: entities spawned through the UI

\* ------------------------------------------------------- program constants
GameTimerSeconds == 3

MenuState == {"Main", "Game", "Settings", "Credits"}
DefaultMenuState == "Main"
PointerButton == {"Primary", "Secondary"}

ChangeState(s) == [kind |-> "ChangeState", state |-> s]
Exit == [kind |-> "Exit", state |-> "-"]
MenuButtonAction == {ChangeState(s) : s \in MenuState} \cup {Exit}

\* The closure of the 'Spawn Entity' button of the demo.
SpawnClosure == [kind |-> "Spawn", state |-> "-"]

\* ---------------------------------------------------------------- entities
Entity(node, on_game, parent) == [node |-> node, on_game |-> on_game, parent |-> parent]

\* The Startup system of both examples: the UI root (a NodeBundle) and the camera.
StartupEntities == (1 :> Entity(TRUE, FALSE, 0)) @@ (2 :> Entity(FALSE, FALSE, 0))

FreshId(es) == CHOOSE i \in 1..(Cardinality(DOMAIN es) + 1) : i \notin DOMAIN es

Insert(es, id, e) == [i \in DOMAIN es \cup {id} |-> IF i = id THEN e ELSE es[i]]

RECURSIVE Descendants(_, _)
Descendants(es, ids) ==
    LET kids == {i \in DOMAIN es : es[i].parent \in ids /\ i \notin ids}
    IN IF kids = {} THEN ids ELSE Descendants(es, ids \cup kids)

despawn_recursive(es, id) ==
    LET gone == Descendants(es, {id})
    IN [i \in DOMAIN es \ gone |-> es[i]]

\* ---------------------------------------------------------------- commands
Command(op, entity) == [op |-> op, entity |-> entity]

\* GameTimer::new(): a Once timer of 3 seconds with nothing elapsed.
GameTimerNew == <<0>>

\* Timer::tick in TimerMode::Once: the elapsed time stops at the duration.
TimerTick(t, delta) ==
    IF t[1] + delta >= GameTimerSeconds THEN <<GameTimerSeconds>> ELSE <<t[1] + delta>>

TimerFinished(t) == t[1] >= GameTimerSeconds

\* One command applied to w = [timer, entities].
ApplyCommand(w, c) ==
    CASE c.op = "insert_resource" -> [w EXCEPT !.timer = GameTimerNew]
      [] c.op = "remove_resource" -> [w EXCEPT !.timer = <<>>]
      [] c.op = "spawn_with_children" ->
            LET p == FreshId(w.entities)
                withParent == Insert(w.entities, p, Entity(TRUE, TRUE, 0))
                k == FreshId(withParent)
            IN [w EXCEPT !.entities = Insert(withParent, k, Entity(TRUE, FALSE, p))]
      [] c.op = "despawn_recursive" ->
            [w EXCEPT !.entities = IF c.entity \in DOMAIN w.entities
                                   THEN despawn_recursive(w.entities, c.entity)
                                   ELSE w.entities]

RECURSIVE ApplyCommands(_, _)
ApplyCommands(w, cs) ==
    IF cs = <<>> THEN w ELSE ApplyCommands(ApplyCommand(w, Head(cs)), Tail(cs))

RECURSIVE SetToSeq(_)
SetToSeq(S) ==
    IF S = {} THEN <<>>
    ELSE LET m == CHOOSE x \in S : \A y \in S : x <= y
         IN <<m>> \o SetToSeq(S \ {m})

\* The commands on_enter_game queues: the timer, and the OnGame node with its text child.
on_enter_game == <<Command("insert_resource", 0), Command("spawn_with_children", 0)>>

\* on_exit_game with the removal of the timer left out: a fault C4 has to detect.
on_exit_game_no_remove(es) ==
    [i \in 1..Cardinality({e \in DOMAIN es : es[e].on_game}) |->
        Command("despawn_recursive", SetToSeq({e \in DOMAIN es : es[e].on_game})[i])]

\* The commands on_exit_game queues: the timer's removal, and one recursive despawn
\* for each entity the query With<OnGame> yields.
on_exit_game(es) ==
    <<Command("remove_resource", 0)>> \o
    [i \in 1..Cardinality({e \in DOMAIN es : es[e].on_game}) |->
        Command("despawn_recursive", SetToSeq({e \in DOMAIN es : es[e].on_game})[i])]

\* The systems main() adds to the OnExit and OnEnter schedules of a state.
OnExitSystems(s, es) == IF s = "Game" THEN on_exit_game(es) ELSE <<>>
OnEnterSystems(s) == IF s = "Game" THEN on_enter_game ELSE <<>>

\* The systems of the Update schedule.
UpdateSystems == IF app = "main_menu" THEN {"tick_game_timer", "tick_dioxus_ui"}
                 ELSE {"tick_dioxus_ui"}

\* ---------------------------------------------------------------- initial state
Init ==
    /\ app \in {"main_menu", "demo"}
    /\ pc = "StateTransition"
    /\ state = DefaultMenuState
    /\ next_state = <<>>
    /\ game_timer = <<>>
    /\ entities = StartupEntities
    /\ app_exit = 0
    /\ commands = <<>>
    /\ transition = <<>>
    /\ ran = {}
    /\ queue = <<>>
    /\ running = <<>>
    /\ clicks = 0
    /\ event = <<>>
    /\ rendered = [mounted |-> FALSE, menu |-> "-", tree |-> {}, inspected |-> {}]
    /\ selected_entity = {}

ui == <<queue, running, clicks, event, rendered, selected_entity>>

\* ---------------------------------------------------------------- state transition
\* apply_state_transition: takes NextState; when it differs from the state, replaces
\* the state and runs OnExit(exited) and OnEnter(entered).  The demo adds no state.
ApplyStateTransition ==
    /\ pc = "StateTransition"
    /\ IF app = "main_menu" /\ next_state # <<>>
       THEN /\ next_state' = <<>>
            /\ IF state # next_state[1]
               THEN /\ state' = next_state[1]
                    /\ transition' = <<[from |-> state, to |-> next_state[1]]>>
                    /\ pc' = "OnExit"
               ELSE /\ pc' = "Update"
                    /\ UNCHANGED <<state, transition>>
       ELSE /\ pc' = "Update"
            /\ UNCHANGED <<state, next_state, transition>>
    /\ UNCHANGED <<app, game_timer, entities, app_exit, commands, ran>>
    /\ UNCHANGED ui

\* The systems of OnExit(exited) run and queue their commands.
RunOnExit ==
    /\ pc = "OnExit"
    /\ commands' = OnExitSystems(transition[1].from, entities)
    /\ pc' = "OnExitApply"
    /\ UNCHANGED <<app, state, next_state, game_timer, entities, app_exit, transition, ran>>
    /\ UNCHANGED ui

\* The systems of OnEnter(entered) run and queue their commands.
RunOnEnter ==
    /\ pc = "OnEnter"
    /\ commands' = OnEnterSystems(transition[1].to)
    /\ pc' = "OnEnterApply"
    /\ UNCHANGED <<app, state, next_state, game_timer, entities, app_exit, transition, ran>>
    /\ UNCHANGED ui

\* The end of a schedule applies the commands its systems queued.
ApplyDeferred ==
    /\ pc \in {"OnExitApply", "OnEnterApply"}
    /\ LET w == ApplyCommands([timer |-> game_timer, entities |-> entities], commands)
       IN /\ game_timer' = w.timer
          /\ entities' = w.entities
    /\ commands' = <<>>
    /\ IF pc = "OnExitApply"
       THEN pc' = "OnEnter" /\ UNCHANGED transition
       ELSE pc' = "Update" /\ transition' = <<>>
    /\ UNCHANGED <<app, state, next_state, app_exit, ran>>
    /\ UNCHANGED ui

\* ---------------------------------------------------------------- Update systems
\* tick_game_timer.run_if(in_state(MenuState::Game)): ticks the timer by the frame
\* time and sets NextState to Main once the timer has finished.
tick_game_timer(delta) ==
    /\ game_timer' = TimerTick(game_timer, delta)
    /\ IF TimerFinished(game_timer')
       THEN next_state' = <<"Main">>
       ELSE UNCHANGED next_state

TickGameTimer ==
    /\ pc = "Update"
    /\ "tick_game_timer" \in UpdateSystems \ ran
    /\ IF state = "Game"
       THEN /\ game_timer # <<>>
            /\ \E delta \in 0..MaxDelta : tick_game_timer(delta)
       ELSE UNCHANGED <<game_timer, next_state>>
    /\ ran' = ran \cup {"tick_game_timer"}
    /\ UNCHANGED <<app, pc, state, entities, app_exit, commands, transition>>
    /\ UNCHANGED ui

\* The UI tick starts: an exclusive system of the Update schedule.
TickDioxusUi ==
    /\ pc = "Update"
    /\ "tick_dioxus_ui" \in UpdateSystems \ ran
    /\ pc' = "deferred"
    /\ UNCHANGED <<app, commands, transition, ran>>
    /\ UNCHANGED world
    /\ UNCHANGED ui

\* ---------------------------------------------------------------- scheduled closures
\* system_scheduler.schedule(closure): the closure is queued, not run.
schedule(closure) == queue' = Append(queue, closure)

\* The closure MenuButton schedules, run with &mut World.
MenuButtonClosure(action) ==
    /\ IF action.kind = "ChangeState"
       THEN next_state' = <<action.state>> /\ UNCHANGED app_exit
       ELSE app_exit' = app_exit + 1 /\ UNCHANGED next_state
    /\ UNCHANGED <<state, game_timer, entities, selected_entity>>

\* The closure the 'Spawn Entity' button schedules: spawn_empty, then select it.
SpawnEntityClosure ==
    /\ entities' = Insert(entities, FreshId(entities), Entity(FALSE, FALSE, 0))
    /\ selected_entity' = {FreshId(entities)}
    /\ UNCHANGED <<state, next_state, game_timer, app_exit>>

\* The deferred phase of the UI tick takes the next queued closure and starts it.
StartDeferredSystem ==
    /\ pc = "deferred"
    /\ running = <<>>
    /\ queue # <<>>
    /\ running' = <<Head(queue)>>
    /\ queue' = Tail(queue)
    /\ UNCHANGED <<app, pc, commands, transition, ran, clicks, event, rendered, selected_entity>>
    /\ UNCHANGED world

\* A closure that was started runs to its end.
FinishDeferredSystem ==
    /\ running # <<>>
    /\ IF Head(running).kind = "Spawn"
       THEN SpawnEntityClosure
       ELSE MenuButtonClosure(Head(running))
    /\ running' = Tail(running)
    /\ UNCHANGED <<app, pc, commands, transition, ran, queue, clicks, event, rendered>>

\* Every queued closure has run: the tick goes on to the events of the frame.
DeferredSystemsDone ==
    /\ pc = "deferred"
    /\ running = <<>>
    /\ queue = <<>>
    /\ pc' = "dispatch"
    /\ clicks' = 0
    /\ UNCHANGED <<app, commands, transition, ran, queue, running, event, rendered, selected_entity>>
    /\ UNCHANGED world

\* ---------------------------------------------------------------- components
\* AppRoot: the menu shown for the State<MenuState> it reads.
AppRoot == state

\* The MenuButtons of MainMenu, SettingsMenu and CreditsMenu; none in the game.
MainMenu == {ChangeState("Game"), ChangeState("Settings"), ChangeState("Credits"), Exit}
SettingsMenu == {ChangeState("Main")}
CreditsMenu == {ChangeState("Main")}

MenuButtons(menu) ==
    CASE menu = "Main" -> MainMenu
      [] menu = "Settings" -> SettingsMenu
      [] menu = "Credits" -> CreditsMenu
      [] OTHER -> {}

\* SceneTree: use_query_filtered::<(Entity, DebugName), Without<Node>>.
SceneTree == {e \in DOMAIN entities : ~entities[e].node}

\* EntityInspector: the selected entity, which world.get_entity(..).unwrap() must find.
EntityInspector == selected_entity

\* ---------------------------------------------------------------- event handlers
\* MenuButton's onclick with the closure called in the handler instead of scheduled:
\* a fault C1 and C2 have to detect.
MenuButton_onclick_inline(action, button) ==
    /\ IF button = "Primary"
       THEN running' = Append(running, action)
       ELSE UNCHANGED running
    /\ UNCHANGED <<queue, selected_entity>>
    /\ UNCHANGED world

\* MenuButton's onclick with the closure scheduled twice: a fault C5 has to detect.
MenuButton_onclick_twice(action, button) ==
    /\ IF button = "Primary"
       THEN queue' = queue \o <<action, action>>
       ELSE UNCHANGED queue
    /\ UNCHANGED <<running, selected_entity>>
    /\ UNCHANGED world

\* MenuButton's onclick: a primary click schedules the closure of the action.
MenuButton_onclick(action, button) ==
    /\ IF button = "Primary"
       THEN schedule(action)
       ELSE UNCHANGED queue
    /\ UNCHANGED <<running, selected_entity>>
    /\ UNCHANGED world

\* SceneTree's entity button: a primary click toggles the selection; any other click
\* is not stopped and reaches the onclick of the enclosing node, which clears it.
EntityButton_onclick(entity, button) ==
    /\ IF button = "Primary" /\ selected_entity # {entity}
       THEN selected_entity' = {entity}
       ELSE selected_entity' = {}
    /\ UNCHANGED <<queue, running>>
    /\ UNCHANGED world

\* SceneTree's 'Spawn Entity' button.
SpawnButton_onclick(button) ==
    /\ IF button = "Primary"
       THEN schedule(SpawnClosure) /\ UNCHANGED selected_entity
       ELSE selected_entity' = {} /\ UNCHANGED queue
    /\ UNCHANGED running
    /\ UNCHANGED world

\* The onclick of SceneTree's node.
SceneTreeNode_onclick ==
    /\ selected_entity' = {}
    /\ UNCHANGED <<queue, running>>
    /\ UNCHANGED world

\* What can be clicked: the handlers of the UI that was rendered last.
Target(kind, entity) == [kind |-> kind, entity |-> entity]

ClickTargets ==
    IF ~rendered.mounted THEN {}
    ELSE IF app = "main_menu" THEN MenuButtons(rendered.menu)
    ELSE {Target("EntityButton", e) : e \in rendered.tree}
         \cup {Target("SceneTreeNode", 0)}
         \cup IF Cardinality(DOMAIN entities) + Len(queue)
                    < Cardinality(DOMAIN StartupEntities) + MaxSpawned
              THEN {Target("SpawnButton", 0)} ELSE {}

\* The tick reads the next pointer event of the frame.
ReadUiEvent ==
    /\ pc = "dispatch"
    /\ event = <<>>
    /\ clicks < MaxClicksPerFrame
    /\ clicks' = clicks + 1
    /\ \E target \in ClickTargets, button \in PointerButton :
          event' = <<[target |-> target, button |-> button]>>
    /\ UNCHANGED <<app, pc, commands, transition, ran, queue, running, rendered,
                   selected_entity>>
    /\ UNCHANGED world

\* The event is dispatched to the handler of its target.
DispatchUiEvent ==
    /\ pc = "dispatch"
    /\ event # <<>>
    /\ event' = <<>>
    /\ LET target == event[1].target
           button == event[1].button
       IN IF app = "main_menu" THEN MenuButton_onclick(target, button)
          ELSE IF target.kind = "EntityButton" THEN EntityButton_onclick(target.entity, button)
          ELSE IF target.kind = "SpawnButton" THEN SpawnButton_onclick(button)
          ELSE SceneTreeNode_onclick
    /\ UNCHANGED <<app, pc, commands, transition, ran, clicks, rendered>>

\* The events of the frame have been dispatched.
DispatchDone ==
    /\ pc = "dispatch"
    /\ event = <<>>
    /\ pc' = "render"
    /\ UNCHANGED <<app, commands, transition, ran>>
    /\ UNCHANGED world
    /\ UNCHANGED ui

\* The component tree is rendered from the world, which ends the UI tick.
RenderUi ==
    /\ pc = "render"
    /\ rendered' = [mounted |-> TRUE,
                    menu |-> IF app = "main_menu" THEN AppRoot ELSE "-",
                    tree |-> IF app = "demo" THEN SceneTree ELSE {},
                    inspected |-> IF app = "demo" THEN EntityInspector ELSE {}]
    /\ pc' = "Update"
    /\ ran' = ran \cup {"tick_dioxus_ui"}
    /\ UNCHANGED <<app, commands, transition, queue, running, clicks, event, selected_entity>>
    /\ UNCHANGED world

\* The frame ends: the application stops once an AppExit event was sent.
EndFrame ==
    /\ pc = "Update"
    /\ ran = UpdateSystems
    /\ pc' = IF app_exit > 0 THEN "exited" ELSE "StateTransition"
    /\ ran' = {}
    /\ UNCHANGED <<app, commands, transition>>
    /\ UNCHANGED world
    /\ UNCHANGED ui

Next ==
    \/ ApplyStateTransition
    \/ RunOnExit
    \/ RunOnEnter
    \/ ApplyDeferred
    \/ TickGameTimer
    \/ TickDioxusUi
    \/ StartDeferredSystem
    \/ FinishDeferredSystem
    \/ DeferredSystemsDone
    \/ ReadUiEvent
    \/ DispatchUiEvent
    \/ DispatchDone
    \/ RenderUi
    \/ EndFrame

Spec == Init /\ [][Next]_vars

\* The application keeps updating: every step but the arrival of a pointer event is
\* taken when it stays possible.
Progress ==
    \/ ApplyStateTransition
    \/ RunOnExit
    \/ RunOnEnter
    \/ ApplyDeferred
    \/ TickGameTimer
    \/ TickDioxusUi
    \/ StartDeferredSystem
    \/ FinishDeferredSystem
    \/ DeferredSystemsDone
    \/ DispatchUiEvent
    \/ DispatchDone
    \/ RenderUi
    \/ EndFrame

\* Time advances: of the frames in which the timer is ticked, some have a duration.
TimeAdvances == TickGameTimer /\ game_timer' # game_timer

FairSpec == Spec /\ WF_vars(Progress) /\ SF_vars(TimeAdvances)

\* ---------------------------------------------------------------- properties
\* Where UI component logic runs: the event handlers and the render of the tree.
UiLogicRunning == pc \in {"dispatch", "render"}

\* A scheduled closure ends in this step.
ClosureExecutes == running # <<>> /\ running' = Tail(running)

\* C1: a closure passed to system_scheduler.schedule by a click handler is not run in
\* the handler: no step of the handlers or of the render changes the world, closures
\* are queued only by handlers, they execute only in the deferred phase of a UI
\* tick, every update runs the UI tick, and its deferred phase does not end before
\* every queued closure has executed.
C1_Step ==
    /\ UiLogicRunning => world' = world
    /\ Len(queue') > Len(queue) => pc = "dispatch" /\ event # <<>>
    /\ ClosureExecutes => pc = "deferred"
    /\ (pc = "deferred" /\ pc' # "deferred") => queue = <<>> /\ running = <<>>
    /\ (pc = "Update" /\ pc' \in {"StateTransition", "exited"}) => "tick_dioxus_ui" \in ran

C1_ClosureRunsOnNextUpdate == [][C1_Step]_vars

\* C1 witness: the closure of a click on Play executes in a later update, the world
\* still as the handler left it.
C1_Witness ==
    /\ app = "main_menu"
    /\ pc = "deferred"
    /\ running = <<ChangeState("Game")>>
    /\ state = "Main"
    /\ next_state = <<>>

C3_GameReturnsToMain ==
    /\ (state = "Game") ~> (state = "Main" \/ pc = "exited")
    /\ (state = "Game")
          ~> ((game_timer # <<>> /\ TimerFinished(game_timer)) \/ pc = "exited")
    /\ [][(pc = "Update" /\ pc' = "Update" /\ next_state' # next_state)
             => TimerFinished(game_timer')]_vars

\* C4: once the commands of on_exit_game have been applied, and whenever the menu
\* state is not Game afterwards, there is no GameTimer, no entity with the OnGame
\* marker and no child left of a despawned entity.
C4_NothingOfGameLeft ==
    (state # "Game" /\ pc \notin {"OnExit", "OnExitApply"}) =>
        /\ game_timer = <<>>
        /\ \A e \in DOMAIN entities :
              /\ ~entities[e].on_game
              /\ entities[e].parent \in DOMAIN entities \cup {0}

\* C4 witness: the game state was exited and the exit commands have been applied; the
\* entities spawned at startup are the ones left.
C4_Witness ==
    /\ pc = "OnEnter"
    /\ transition[1].from = "Game"
    /\ state # "Game"
    /\ DOMAIN entities = DOMAIN StartupEntities

\* What a click on a MenuButton and the closure it schedules do.
C5_ClickAndClosure ==
    /\ (app = "main_menu" /\ pc = "dispatch" /\ event # <<>> /\ event' = <<>>) =>
          /\ queue' = IF event[1].button = "Primary"
                      THEN Append(queue, event[1].target) ELSE queue
          /\ world' = world
    /\ (app = "main_menu" /\ ClosureExecutes) =>
          IF Head(running).kind = "ChangeState"
          THEN /\ next_state' = <<Head(running).state>>
               /\ state' = state
               /\ app_exit' = app_exit
          ELSE /\ app_exit' = app_exit + 1
               /\ state' = state
               /\ next_state' = next_state
    /\ (pc = "StateTransition" /\ next_state # <<>>) => state' = next_state[1]

NoPanic ==
    /\ (state = "Game" /\ pc \in {"Update", "deferred", "dispatch", "render"}) => game_timer # <<>>
    /\ selected_entity \subseteq DOMAIN entities

====
